---------------------------- MODULE Spec2Model ----------------------------
(***************************************************************************)
(* Model of the Equation heaters integration: the device manager's cache   *)
(* of mirrored radiators (device_manager.py), the climate entity's         *)
(* commands and forced on/off retry loops (climate.py) and the entity      *)
(* availability (equation_entity.py).                                      *)
(*                                                                         *)
(* The vendor cloud and the radiators behind it are the environment: every *)
(* API call has a nondeterministic outcome.  A command call either         *)
(* succeeds, and the radiator applies the command ("ok"), or fails, and    *)
(* the radiator is left as it was ("fail").  A device-data fetch fails     *)
(* ("fail"), succeeds with an empty "data" member ("empty") or succeeds    *)
(* with the radiator's state ("ok").  An update and a command interleave at *)
(* the update's wait for its API calls.                                    *)
(***************************************************************************)
EXTENDS Integers, FiniteSets, Sequences, TLC

VARIABLES
    dev,                  \* vendor side: the actual state of each radiator
    cache,                \* keys of EquationDeviceManager.equation_devices
    mirror,               \* the cached EquationDevice objects (mirrored state)
    ent,                  \* the climate entity of Entity: its _last_* fields
    pc,                   \* position of the entity's running handler
    attempt,              \* loop variable of async_turn_off / async_turn_on
    clean,                \* history: every API call so far succeeded and was applied
    last,                 \* what the last operation did and returned
    conf,                 \* the preset temperatures the radiators are configured with
    fetched               \* the update in flight: what its API calls answered

vars == <<dev, cache, mirror, ent, pc, attempt, clean, last, conf, fetched>>

---------------------------------------------------------------------------
\* Bounds of the model.

\* Number of requested temperatures that match no configured preset temperature.
MaxExtraTemps == 1

---------------------------------------------------------------------------
\* Program constants (const.py, climate.py) and device configuration.

RADIATOR_DEFAULT_TEMPERATURE == 20
MaxAttempts == 3

CMD_SET_TEMP == "cmd_set_temp"
CMD_SET_PRESET == "cmd_set_preset"
CMD_HVAC_OFF == "cmd_turn_off"
CMD_SET_HVAC_MODE == "cmd_set_hvac_mode"

HVAC_OFF == "off"
HVAC_HEAT == "heat"
HVAC_AUTO == "auto"

PRESET_COMFORT == "comfort"
PRESET_ECO == "eco"
PRESET_EQUATION_ICE == "Anti-frost"

RADIATOR_PRESET_ECO == "eco"
RADIATOR_PRESET_COMFORT == "comfort"
RADIATOR_PRESET_ICE == "ice"
RADIATOR_PRESET_NONE == "none"

RADIATOR_MODE_AUTO == "auto"
RADIATOR_MODE_MANUAL == "manual"

EQUATION_SUPPORTED_DEVICES == {"radiator", "towel", "therm"}

\* The preset temperatures a radiator is configured with (fields of the
\* device data: device.comfort_temp, device.eco_temp, device.ice_temp).
comfort_temp == conf.comfort_temp
eco_temp == conf.eco_temp
ice_temp == conf.ice_temp

\* The configuration of the installation the entity's handlers and the device
\* manager's updates are exercised on.
DefaultConf == [comfort_temp |-> 21, eco_temp |-> 18, ice_temp |-> 7]

\* Configurations whose preset temperatures are distinct or coincide.
Configs ==
    { DefaultConf,
      [comfort_temp |-> 21, eco_temp |-> 21, ice_temp |-> 7],
      [comfort_temp |-> 21, eco_temp |-> 18, ice_temp |-> 18],
      [comfort_temp |-> 21, eco_temp |-> 18, ice_temp |-> 21],
      [comfort_temp |-> 21, eco_temp |-> 21, ice_temp |-> 21] }

None == "None"

---------------------------------------------------------------------------
\* The installation.

Radiators == {"r1", "r2"}
\* "x1" is a device of the installation whose type is not supported.
Devices == Radiators \cup {"x1"}
\* The radiator whose climate entity is exercised.
Entity == "r1"

DeviceType(d) == IF d \in Radiators THEN "radiator" ELSE "boiler"

TempArgs ==
    {comfort_temp, eco_temp, ice_temp} \cup {comfort_temp + i : i \in 1..MaxExtraTemps}

CmdOutcomes == {"ok", "fail"}
FetchOutcomes == {"ok", "empty", "fail"}
ScheduleModes == {"comfort", "eco", "none"}

\* The cache slot of a device that is not cached.
Absent == [hass_available |-> FALSE, power |-> FALSE, mode |-> None,
           temp |-> 0, preset |-> None]

StateOf(m) == [power |-> m.power, mode |-> m.mode, temp |-> m.temp, preset |-> m.preset]

InitialDeviceStates ==
    { [power |-> TRUE, mode |-> RADIATOR_MODE_MANUAL, temp |-> comfort_temp,
       preset |-> RADIATOR_PRESET_COMFORT],
      [power |-> TRUE, mode |-> RADIATOR_MODE_AUTO, temp |-> eco_temp,
       preset |-> RADIATOR_PRESET_ECO],
      [power |-> FALSE, mode |-> RADIATOR_MODE_MANUAL, temp |-> RADIATOR_DEFAULT_TEMPERATURE,
       preset |-> HVAC_OFF] }

\* Every state the device data of a radiator can show.
DeviceStates ==
    [power : BOOLEAN,
     mode : {RADIATOR_MODE_AUTO, RADIATOR_MODE_MANUAL},
     temp : TempArgs \cup {RADIATOR_DEFAULT_TEMPERATURE},
     preset : {RADIATOR_PRESET_ECO, RADIATOR_PRESET_COMFORT, RADIATOR_PRESET_ICE,
               RADIATOR_PRESET_NONE, HVAC_OFF}]

---------------------------------------------------------------------------
\* The vendor side (equationsdk and the cloud behind it).

\* The preset a radiator shows for a temperature: comfort wins over eco, eco over ice.
PresetForTemp(t) ==
    IF t = comfort_temp THEN RADIATOR_PRESET_COMFORT
    ELSE IF t = eco_temp THEN RADIATOR_PRESET_ECO
    ELSE IF t = ice_temp THEN RADIATOR_PRESET_ICE
    ELSE RADIATOR_PRESET_NONE

\* Temperature and preset a radiator takes from its schedule (manual HVAC mode).
ScheduleTemp(s, sched, ice_mode) ==
    IF sched = "comfort" THEN comfort_temp
    ELSE IF sched = "eco" THEN eco_temp
    ELSE IF ice_mode THEN ice_temp
    ELSE RADIATOR_DEFAULT_TEMPERATURE

SchedulePreset(s, sched, ice_mode) ==
    IF sched = "comfort" THEN RADIATOR_PRESET_COMFORT
    ELSE IF sched = "eco" THEN RADIATOR_PRESET_ECO
    ELSE IF ice_mode THEN RADIATOR_PRESET_ICE
    ELSE s.preset

\* The radiator's state once it has applied a command the cloud passed on.
\* `sent` is the argument of the API call.
VendorApply(s, command, sent, sched, ice_mode) ==
    IF command = CMD_SET_TEMP THEN
        [power |-> TRUE, mode |-> RADIATOR_MODE_MANUAL, temp |-> sent,
         preset |-> PresetForTemp(sent)]
    ELSE IF command = CMD_SET_PRESET THEN
        IF sent \in {RADIATOR_PRESET_COMFORT, RADIATOR_PRESET_ECO, RADIATOR_PRESET_ICE}
        THEN [s EXCEPT !.power = TRUE, !.mode = RADIATOR_MODE_MANUAL, !.preset = sent]
        ELSE [s EXCEPT !.preset = sent]
    ELSE IF sent = HVAC_OFF THEN
        [s EXCEPT !.power = FALSE, !.preset = HVAC_OFF,
                  !.temp = IF s.mode = RADIATOR_MODE_MANUAL
                           THEN RADIATOR_DEFAULT_TEMPERATURE ELSE @]
    ELSE IF sent = HVAC_HEAT THEN
        [power |-> TRUE, mode |-> RADIATOR_MODE_MANUAL, temp |-> comfort_temp,
         preset |-> RADIATOR_PRESET_NONE]
    ELSE IF sent = HVAC_AUTO THEN
        [s EXCEPT !.power = TRUE, !.mode = RADIATOR_MODE_AUTO]
    ELSE IF sent = RADIATOR_MODE_MANUAL THEN
        [power |-> TRUE, mode |-> RADIATOR_MODE_MANUAL,
         temp |-> ScheduleTemp(s, sched, ice_mode),
         preset |-> SchedulePreset(s, sched, ice_mode)]
    ELSE s

\* EquationDevice.update_data: the mirror takes the fetched device data.
UpdateData(m, s) ==
    [m EXCEPT !.power = s.power, !.mode = s.mode, !.temp = s.temp, !.preset = s.preset]

\* EquationDevice(device_info = ...): a new mirror of the fetched device data.
NewDevice(s) ==
    [hass_available |-> TRUE, power |-> s.power, mode |-> s.mode, temp |-> s.temp,
     preset |-> s.preset]

---------------------------------------------------------------------------
\* EquationDeviceManager: commands.

\* Mutant of SetDeviceTemp: a successful command restores the availability.
SetDeviceTemp_Restores(m, success, new_temp) ==
    IF ~success THEN [m EXCEPT !.hass_available = FALSE]
    ELSE [m EXCEPT !.hass_available = TRUE,
                   !.temp = new_temp,
                   !.mode = RADIATOR_MODE_MANUAL,
                   !.power = TRUE,
                   !.preset = PresetForTemp(new_temp)]

\* Mutant of SetDeviceTemp: the eco temperature is tested before the comfort one.
SetDeviceTemp_EcoFirst(m, success, new_temp) ==
    IF ~success THEN [m EXCEPT !.hass_available = FALSE]
    ELSE [m EXCEPT !.temp = new_temp,
                   !.mode = RADIATOR_MODE_MANUAL,
                   !.power = TRUE,
                   !.preset = IF new_temp = eco_temp THEN RADIATOR_PRESET_ECO
                              ELSE IF new_temp = comfort_temp THEN RADIATOR_PRESET_COMFORT
                              ELSE IF new_temp = ice_temp THEN RADIATOR_PRESET_ICE
                              ELSE RADIATOR_PRESET_NONE]

\* Mutant of SetDeviceTemp: the mirrored mode is left as it was.
SetDeviceTemp_KeepsMode(m, success, new_temp) ==
    IF ~success THEN [m EXCEPT !.hass_available = FALSE]
    ELSE [m EXCEPT !.temp = new_temp,
                   !.power = TRUE,
                   !.preset = PresetForTemp(new_temp)]

\* _set_device_temp, after the API call returned `success`.
SetDeviceTemp(m, success, new_temp) ==
    IF ~success THEN [m EXCEPT !.hass_available = FALSE]
    ELSE [m EXCEPT !.temp = new_temp,
                   !.mode = RADIATOR_MODE_MANUAL,
                   !.power = TRUE,
                   !.preset = IF new_temp = comfort_temp THEN RADIATOR_PRESET_COMFORT
                              ELSE IF new_temp = eco_temp THEN RADIATOR_PRESET_ECO
                              ELSE IF new_temp = ice_temp THEN RADIATOR_PRESET_ICE
                              ELSE RADIATOR_PRESET_NONE]

\* _set_device_mode, after the API call returned `success`.
SetDeviceMode(m, success, hvac_mode, sched, ice_mode) ==
    IF ~success THEN [m EXCEPT !.hass_available = FALSE]
    ELSE IF hvac_mode = HVAC_OFF THEN
        [m EXCEPT !.temp = IF m.mode = RADIATOR_MODE_MANUAL
                           THEN RADIATOR_DEFAULT_TEMPERATURE ELSE @,
                  !.power = FALSE,
                  !.preset = HVAC_OFF]
    ELSE IF hvac_mode = HVAC_HEAT THEN
        [m EXCEPT !.temp = comfort_temp,
                  !.power = TRUE,
                  !.mode = RADIATOR_MODE_MANUAL,
                  !.preset = RADIATOR_PRESET_NONE]
    ELSE IF hvac_mode = RADIATOR_MODE_MANUAL THEN
        [m EXCEPT !.temp = IF sched = "comfort" THEN comfort_temp
                           ELSE IF sched = "eco" THEN eco_temp
                           ELSE IF ice_mode THEN ice_temp
                           ELSE RADIATOR_DEFAULT_TEMPERATURE,
                  !.preset = IF sched = "comfort" THEN RADIATOR_PRESET_COMFORT
                             ELSE IF sched = "eco" THEN RADIATOR_PRESET_ECO
                             ELSE IF ice_mode THEN RADIATOR_PRESET_ICE
                             ELSE @,
                  !.power = TRUE,
                  !.mode = RADIATOR_MODE_MANUAL]
    ELSE m

\* _set_device_preset: the preset sent to the API (the local device_preset).
PresetToSend(m, preset) ==
    IF preset = PRESET_COMFORT THEN RADIATOR_PRESET_COMFORT
    ELSE IF preset = PRESET_ECO THEN RADIATOR_PRESET_ECO
    ELSE IF preset = PRESET_EQUATION_ICE THEN RADIATOR_PRESET_ICE
    ELSE m.preset

\* Mutant of SetDevicePreset: the mirror is written before the API answers.
SetDevicePreset_Early(m, success, preset) ==
    LET w == IF preset \in {PRESET_COMFORT, PRESET_ECO, PRESET_EQUATION_ICE}
             THEN [m EXCEPT !.power = TRUE,
                            !.mode = RADIATOR_MODE_MANUAL,
                            !.preset = PresetToSend(m, preset)]
             ELSE m
    IN  IF ~success THEN [w EXCEPT !.hass_available = FALSE] ELSE w

\* _set_device_preset, after the API call returned `success`.
SetDevicePreset(m, success, preset) ==
    IF ~success THEN [m EXCEPT !.hass_available = FALSE]
    ELSE IF preset \in {PRESET_COMFORT, PRESET_ECO, PRESET_EQUATION_ICE}
    THEN [m EXCEPT !.power = TRUE,
                   !.mode = RADIATOR_MODE_MANUAL,
                   !.preset = PresetToSend(m, preset)]
    ELSE m

\* Mutant of Dispatched: "cmd_turn_off" is dispatched too.
Dispatched_TurnOff(command) ==
    command \in {CMD_SET_TEMP, CMD_SET_PRESET, CMD_SET_HVAC_MODE, CMD_HVAC_OFF}

\* send_command: whether the command is one of the three dispatched.
Dispatched(command) == command \in {CMD_SET_TEMP, CMD_SET_PRESET, CMD_SET_HVAC_MODE}

\* send_command: the argument of the vendor API call it makes.
SentArg(m, command, arg) ==
    IF command = CMD_SET_PRESET THEN PresetToSend(m, arg) ELSE arg

\* send_command: the mirror after the call; `success` is the API's answer.
SendCommandMirror(m, command, arg, success, sched, ice_mode) ==
    IF command = CMD_SET_TEMP THEN SetDeviceTemp(m, success, arg)
    ELSE IF command = CMD_SET_PRESET THEN SetDevicePreset(m, success, arg)
    ELSE IF command = CMD_SET_HVAC_MODE
    THEN SetDeviceMode(m, success, arg, sched, ice_mode)
    ELSE m

\* send_command: its return value.
SendCommandReturn(command, success) == Dispatched(command) /\ success

\* send_command: the vendor API calls it makes.
SendCommandCalls(d, command) ==
    IF command = CMD_SET_TEMP THEN {<<"set_device_temp", d>>}
    ELSE IF command = CMD_SET_PRESET THEN {<<"set_device_preset", d>>}
    ELSE IF command = CMD_SET_HVAC_MODE THEN {<<"set_device_mode", d>>}
    ELSE {}

\* The radiator after send_command: it changes only when the API was called
\* and the radiator applied the command.
DeviceAfterCommand(s, m, command, arg, outcome, sched, ice_mode) ==
    IF Dispatched(command) /\ outcome = "ok"
    THEN VendorApply(s, command, SentArg(m, command, arg), sched, ice_mode)
    ELSE s

---------------------------------------------------------------------------
\* EquationDeviceManager: update.

NoFetch == [d \in Devices |-> "-"]

\* No update ran.
NoUpdate == [listOk |-> FALSE, listed |-> {}, fetch |-> NoFetch]

\* The outcomes of one update's API calls: the installation-device-list fetch
\* (failed, or the listed ids) and the base-data fetch of each listed device.
\* The fetch of a device of an unsupported type is taken to succeed.
UpdateOutcomes ==
    {[listOk |-> FALSE, listed |-> {}, fetch |-> NoFetch]} \cup
    {[listOk |-> TRUE, listed |-> L, fetch |-> f] :
        <<L, f>> \in {x \in (SUBSET Devices) \X [Devices -> FetchOutcomes \cup {"-"}] :
                        /\ \A d \in Devices : (x[2][d] = "-") <=> (d \notin x[1])
                        /\ \A d \in x[1] \ Radiators : x[2][d] = "ok"}}

\* The outcomes of the refreshes around the entity's handlers: the installation
\* is stable, and the radiators other than the entity's answer with their data.
RefreshOutcomes ==
    {o \in UpdateOutcomes :
        o.listOk => /\ o.listed = Devices
                    /\ \A d \in Radiators \ {Entity} : o.fetch[d] = "ok"}

\* Mutant of FailAllDevices: the devices keep their availability.
FailAllDevices_Nothing(c, mir) == mir

\* _fail_all_devices
FailAllDevices(c, mir) ==
    [d \in Radiators |-> IF d \in c THEN [mir[d] EXCEPT !.hass_available = FALSE]
                         ELSE mir[d]]

\* Mutant of IsNewDevice: a cached device is returned again.
IsNewDevice_Cached(c, d, f) ==
    /\ f = "ok"
    /\ DeviceType(d) \in EQUATION_SUPPORTED_DEVICES

\* _process_api_data and _add_or_update_device: whether the device is returned
\* as a new device.
IsNewDevice(c, d, f) ==
    /\ f = "ok"
    /\ d \notin c
    /\ DeviceType(d) \in EQUATION_SUPPORTED_DEVICES

\* _process_api_data and _add_or_update_device: the cache slot of a listed
\* radiator d after its data is processed.
ProcessApiData(c, m, s, d, f) ==
    IF f = "fail" THEN
        IF d \in c THEN [m EXCEPT !.hass_available = FALSE] ELSE m
    ELSE IF f = "empty" THEN m
    ELSE IF d \in c THEN
        UpdateData([m EXCEPT !.hass_available = TRUE], s)
    ELSE IF DeviceType(d) \notin EQUATION_SUPPORTED_DEVICES THEN m
    ELSE NewDevice(s)

\* update: the devices it returns.
UpdateDiscovered(c, o) ==
    IF ~o.listOk THEN {}
    ELSE {d \in o.listed : IsNewDevice(c, d, o.fetch[d])}

\* Mutant of UpdateMirror: one failed base-data fetch fails the whole update.
UpdateMirror_FailFast(c, mir, dv, o) ==
    IF ~o.listOk \/ \E d \in o.listed : o.fetch[d] = "fail"
    THEN FailAllDevices(c, mir)
    ELSE [d \in Radiators |->
            IF d \in o.listed THEN ProcessApiData(c, mir[d], dv[d], d, o.fetch[d])
            ELSE mir[d]]

\* update: the cached objects after it.
UpdateMirror(c, mir, dv, o) ==
    IF ~o.listOk THEN FailAllDevices(c, mir)
    ELSE [d \in Radiators |->
            IF d \in o.listed THEN ProcessApiData(c, mir[d], dv[d], d, o.fetch[d])
            ELSE mir[d]]

\* Mutant of UpdateCache: a cached device that is no longer listed is dropped.
UpdateCache_Evicts(c, o) ==
    IF o.listOk THEN (c \cap o.listed) \cup UpdateDiscovered(c, o) ELSE c

\* update: the keys of equation_devices after it.
UpdateCache(c, o) == c \cup UpdateDiscovered(c, o)

\* update: the vendor API calls it makes.
UpdateCalls(o) ==
    {<<"get_installation_devices", "-">>} \cup
    IF ~o.listOk THEN {}
    ELSE {<<"get_latest_firmware", "-">>}
         \cup {<<"get_device", d>> : d \in o.listed}
         \cup {<<"get_latest_energy_stats", d>> : d \in o.listed}

\* Every call of the update succeeded with data, and the entity's radiator
\* is still part of the installation.
CleanUpdate(o) ==
    /\ o.listOk
    /\ Entity \in o.listed
    /\ \A d \in o.listed : o.fetch[d] = "ok"

---------------------------------------------------------------------------
\* EquationHaClimate: the derived properties.

\* Mutant of hvac_mode: the auto mode is not told from the manual one.
hvac_mode_NoAuto(m) == IF ~m.power THEN HVAC_OFF ELSE HVAC_HEAT

hvac_mode(m) ==
    IF ~m.power THEN HVAC_OFF
    ELSE IF m.mode = RADIATOR_MODE_AUTO THEN HVAC_AUTO
    ELSE HVAC_HEAT

hvac_action(m) == IF ~m.power THEN "off" ELSE "heating"

\* Mutant of target_temperature: the mirrored mode is not looked at.
target_temperature_IgnoresMode(m) ==
    IF m.preset = RADIATOR_PRESET_ECO THEN eco_temp
    ELSE IF m.preset = RADIATOR_PRESET_COMFORT THEN comfort_temp
    ELSE IF m.preset = RADIATOR_PRESET_ICE THEN ice_temp
    ELSE m.temp

target_temperature(m) ==
    IF m.mode = RADIATOR_MODE_MANUAL /\ m.preset = RADIATOR_PRESET_ECO THEN eco_temp
    ELSE IF m.mode = RADIATOR_MODE_MANUAL /\ m.preset = RADIATOR_PRESET_COMFORT
    THEN comfort_temp
    ELSE IF m.mode = RADIATOR_MODE_MANUAL /\ m.preset = RADIATOR_PRESET_ICE THEN ice_temp
    ELSE m.temp

preset_mode(m) ==
    IF m.preset = RADIATOR_PRESET_ECO THEN PRESET_ECO
    ELSE IF m.preset = RADIATOR_PRESET_COMFORT THEN PRESET_COMFORT
    ELSE IF m.preset = RADIATOR_PRESET_ICE THEN PRESET_EQUATION_ICE
    ELSE None

\* EquationRadiatorEntity.available, for the entity of radiator d;
\* coordinator_available is CoordinatorEntity.available (super().available).
available(d, coordinator_available) ==
    coordinator_available /\ d \in cache /\ mirror[d].hass_available

---------------------------------------------------------------------------
\* Initial state: EquationDeviceManager.__init__ and EquationHaClimate.__init__.

NoRun == [op |-> "init"]

\* No update is in flight.
NoFlight == [active |-> FALSE, o |-> NoUpdate,
             data |-> [d \in Radiators |-> StateOf(Absent)]]

Init ==
    /\ conf = DefaultConf
    /\ fetched = NoFlight
    /\ dev \in {f \in [Radiators -> InitialDeviceStates] :
                    \A d \in Radiators \ {Entity} : f[d].mode = RADIATOR_MODE_AUTO}
    /\ cache = {}
    /\ mirror = [d \in Radiators |-> Absent]
    /\ ent = [last_hvac_mode |-> None, last_target_temperature |-> <<>>,
              last_preset_mode |-> None]
    /\ pc = "idle"
    /\ attempt = 0
    /\ clean = TRUE
    /\ last = NoRun

\* The radiators are cached, mirrored as the device data of a first update
\* showed them: the entity's radiator in any state, under any configuration.
InitCmd ==
    /\ conf \in Configs
    /\ fetched = NoFlight
    /\ dev \in {f \in [Radiators -> DeviceStates] :
                    \A d \in Radiators \ {Entity} :
                        f[d] = [power |-> TRUE, mode |-> RADIATOR_MODE_AUTO,
                                temp |-> eco_temp, preset |-> RADIATOR_PRESET_ECO]}
    /\ cache = Radiators
    /\ mirror = [d \in Radiators |-> NewDevice(dev[d])]
    /\ ent = [last_hvac_mode |-> None, last_target_temperature |-> <<>>,
              last_preset_mode |-> None]
    /\ pc = "idle"
    /\ attempt = 0
    /\ clean = TRUE
    /\ last = NoRun

---------------------------------------------------------------------------
\* EquationDeviceManager.update, with what it was answered and what it returned.
Update ==
    /\ pc = "idle"
    /\ \E o \in UpdateOutcomes :
        /\ cache' = UpdateCache(cache, o)
        /\ mirror' = UpdateMirror(cache, mirror, dev, o)
        /\ clean' = (clean /\ CleanUpdate(o))
        /\ last' = [op |-> "update", listOk |-> o.listOk, listed |-> o.listed,
                    fetch |-> o.fetch, discovered |-> UpdateDiscovered(cache, o),
                    calls |-> UpdateCalls(o),
                    restored |-> {d \in cache : /\ ~mirror[d].hass_available
                                                /\ mirror'[d].hass_available}]
    /\ UNCHANGED <<dev, ent, pc, attempt, conf, fetched>>

\* The coordinator's periodic refresh, between the entity's handlers: it runs
\* EquationDeviceManager.update.
Refresh ==
    /\ pc = "idle"
    /\ \E o \in RefreshOutcomes :
        /\ cache' = UpdateCache(cache, o)
        /\ mirror' = UpdateMirror(cache, mirror, dev, o)
        /\ clean' = (clean /\ CleanUpdate(o))
    /\ last' = [op |-> "refresh"]
    /\ UNCHANGED <<dev, ent, pc, attempt, conf, fetched>>

\* update, up to `await asyncio.gather(*pending_futures)`: the device list and
\* the data of every listed device are fetched; the update then waits for the
\* last of its calls while other handlers run.
UpdateFetch ==
    /\ pc = "idle"
    /\ ~fetched.active
    /\ \E o \in RefreshOutcomes :
        fetched' = [active |-> TRUE, o |-> o, data |-> dev]
    /\ last' = [op |-> "update_fetch"]
    /\ UNCHANGED <<dev, cache, mirror, ent, pc, attempt, clean, conf>>

\* update, from the end of the gather on: the fetched responses are processed
\* in one go (no await suspends it).  `overlapped`: the operation that ran last
\* while the update was in flight is a command that returned true; `kept`: the
\* update left the mirrored fields of the entity's radiator as that command
\* had set them.
UpdateFinish ==
    /\ fetched.active
    /\ cache' = UpdateCache(cache, fetched.o)
    /\ mirror' = UpdateMirror(cache, mirror, fetched.data, fetched.o)
    /\ clean' = (clean /\ CleanUpdate(fetched.o))
    /\ fetched' = NoFlight
    /\ last' = [op |-> "update_finish",
                overlapped |-> (last.op = "send_command" /\ last.ret),
                kept |-> (StateOf(mirror'[Entity]) = StateOf(mirror[Entity]))]
    /\ UNCHANGED <<dev, ent, pc, attempt, conf>>

\* EquationDeviceManager.send_command on the cached radiator Entity.
CommandArgs(command) ==
    IF command = CMD_SET_TEMP THEN TempArgs
    ELSE IF command = CMD_SET_PRESET
    THEN {PRESET_COMFORT, PRESET_ECO, PRESET_EQUATION_ICE, "boost"}
    ELSE IF command = CMD_SET_HVAC_MODE
    THEN {HVAC_OFF, HVAC_HEAT, HVAC_AUTO, RADIATOR_MODE_MANUAL}
    ELSE {None}

\* _set_device_mode reads the radiator's schedule for the manual mode only.
ScheduleRead(command, arg) ==
    command = CMD_SET_HVAC_MODE /\ arg = RADIATOR_MODE_MANUAL

Commands == {CMD_SET_TEMP, CMD_SET_PRESET, CMD_SET_HVAC_MODE, CMD_HVAC_OFF}

SendCommand ==
    /\ pc = "idle"
    /\ \E d \in cache \cap {Entity}, command \in Commands, oc \in CmdOutcomes :
        \E arg \in CommandArgs(command) :
        \E sched \in IF ScheduleRead(command, arg) THEN ScheduleModes ELSE {"none"},
           ice_mode \in IF ScheduleRead(command, arg) THEN BOOLEAN ELSE {FALSE} :
            /\ mirror' = [mirror EXCEPT ![d] =
                    SendCommandMirror(@, command, arg, oc # "fail", sched, ice_mode)]
            /\ dev' = [dev EXCEPT ![d] =
                    DeviceAfterCommand(@, mirror[d], command, arg, oc, sched, ice_mode)]
            /\ clean' = (clean /\ (Dispatched(command) => oc = "ok"))
            /\ ~Dispatched(command) => oc = "ok"
            /\ last' = [op |-> "send_command", dev |-> d, command |-> command,
                        arg |-> arg, calls |-> SendCommandCalls(d, command),
                        api |-> IF Dispatched(command) THEN oc ELSE "-",
                        ret |-> SendCommandReturn(command, oc # "fail")]
    /\ UNCHANGED <<cache, ent, pc, attempt, conf, fetched>>

---------------------------------------------------------------------------
\* EquationHaClimate: the commands of the entity of radiator Entity.
\* coordinator.async_request_refresh runs EquationDeviceManager.update.

\* What a handler did so far: its outcome, what its last send_command returned,
\* the commands it sent, the refreshes it requested and its calls of
\* async_write_ha_state.
Run(op, result, ret, sends, refreshes, writes) ==
    [op |-> op, result |-> result, ret |-> ret, sends |-> sends,
     refreshes |-> refreshes, writes |-> writes]

\* A handler that has done nothing yet.
Started == [sends |-> 0, refreshes |-> 0]

\* One send_command of the entity followed, when `refresh` holds, by one refresh:
\* the radiators, the cache and the cached objects afterwards.
AfterCommand(command, arg, oc, refresh, o) ==
    LET m1 == SendCommandMirror(mirror[Entity], command, arg, oc # "fail", "none", FALSE)
        mir1 == [mirror EXCEPT ![Entity] = m1]
        dev1 == [dev EXCEPT ![Entity] =
                    DeviceAfterCommand(@, mirror[Entity], command, arg, oc, "none", FALSE)]
    IN  [dev |-> dev1,
         cache |-> IF refresh THEN UpdateCache(cache, o) ELSE cache,
         mirror |-> IF refresh THEN UpdateMirror(cache, mir1, dev1, o) ELSE mir1]

\* Mutant of CommandFailed: the return value of send_command is not looked at.
CommandFailed_Ignored(ret) == FALSE

\* async_set_temperature / async_set_preset_mode: `if not await send_command(...)`.
CommandFailed(ret) == ~ret

\* async_set_temperature / async_set_preset_mode: the command, then
\* _signal_thermostat_update (refresh, write) unless the command returned false.
SetValue(op, command, arg, before, writesAfter) ==
    \E oc \in CmdOutcomes :
        LET ret == SendCommandReturn(command, oc # "fail")
        IN  \/ /\ CommandFailed(ret)
               /\ LET after == AfterCommand(command, arg, oc, FALSE, NoUpdate)
                  IN  /\ dev' = after.dev
                      /\ cache' = after.cache
                      /\ mirror' = after.mirror
                      /\ clean' = (clean /\ oc = "ok")
                      /\ last' = Run(op, "raised", ret, before.sends + 1,
                                     before.refreshes, 0)
            \/ /\ ~CommandFailed(ret)
               /\ \E o \in RefreshOutcomes :
                  LET after == AfterCommand(command, arg, oc, TRUE, o)
                  IN  /\ dev' = after.dev
                      /\ cache' = after.cache
                      /\ mirror' = after.mirror
                      /\ clean' = (clean /\ oc = "ok" /\ CleanUpdate(o))
                      /\ last' = Run(op, "returned", ret, before.sends + 1,
                                     before.refreshes + 1, writesAfter)

async_set_temperature ==
    /\ pc = "idle"
    /\ Entity \in cache
    /\ \E temperature \in TempArgs :
        /\ ent' = [ent EXCEPT !.last_target_temperature = <<temperature>>,
                              !.last_preset_mode = None]
        /\ SetValue("set_temperature", CMD_SET_TEMP, temperature, Started, 1)
    /\ UNCHANGED <<pc, attempt, conf, fetched>>

async_set_preset_mode ==
    /\ pc = "idle"
    /\ Entity \in cache
    /\ \E preset \in {PRESET_COMFORT, PRESET_ECO, PRESET_EQUATION_ICE} :
        /\ ent' = [ent EXCEPT !.last_preset_mode = preset,
                              !.last_target_temperature = <<>>]
        /\ SetValue("set_preset_mode", CMD_SET_PRESET, preset, Started, 1)
    /\ UNCHANGED <<pc, attempt, conf, fetched>>

\* Mutant of LoopExhausted: the range is one too long, `range(1, 5)`.
LoopExhausted_OneMore(a) == a >= MaxAttempts + 1

\* async_turn_off / async_turn_on: `for attempt in range(1, 4)` is over.
LoopExhausted(a) == a >= MaxAttempts

\* async_turn_off: the test that ends the loop.
TurnedOff(m) == ~m.power

\* async_turn_on: the test that ends the loop.
TurnedOn(m) == m.power

\* async_turn_on: the mode it sends.
TurnOnMode(e) == IF e.last_hvac_mode # None THEN e.last_hvac_mode ELSE HVAC_HEAT

\* async_turn_off, up to the loop.
TurnOffCall ==
    /\ pc = "idle"
    /\ Entity \in cache
    /\ ent' = [last_hvac_mode |-> hvac_mode(mirror[Entity]),
               last_target_temperature |-> <<target_temperature(mirror[Entity])>>,
               last_preset_mode |-> preset_mode(mirror[Entity])]
    /\ pc' = "turn_off"
    /\ attempt' = 1
    /\ last' = Run("turn_off", "running", FALSE, 0, 0, 0)
    /\ UNCHANGED <<dev, cache, mirror, clean, conf, fetched>>

\* async_turn_off: one iteration of the loop (command, sleep, refresh, test).
TurnOffAttempt ==
    /\ pc = "turn_off"
    /\ \E oc \in CmdOutcomes, o \in RefreshOutcomes :
        LET after == AfterCommand(CMD_SET_HVAC_MODE, HVAC_OFF, oc, TRUE, o)
            off == TurnedOff(after.mirror[Entity])
            over == ~off /\ LoopExhausted(attempt)
        IN  /\ dev' = after.dev
            /\ cache' = after.cache
            /\ mirror' = after.mirror
            /\ clean' = (clean /\ oc = "ok" /\ CleanUpdate(o))
            /\ pc' = IF off \/ over THEN "idle" ELSE "turn_off"
            /\ attempt' = IF off \/ over THEN 0 ELSE attempt + 1
            /\ last' = Run("turn_off",
                           IF off THEN "returned" ELSE IF over THEN "raised" ELSE "running",
                           oc # "fail", last.sends + 1, last.refreshes + 1,
                           IF off THEN 1 ELSE 0)
    /\ UNCHANGED <<ent, conf, fetched>>

\* async_turn_on, up to the loop.
TurnOnCall ==
    /\ pc = "idle"
    /\ Entity \in cache
    /\ pc' = "turn_on"
    /\ attempt' = 1
    /\ last' = Run("turn_on", "running", FALSE, 0, 0, 0)
    /\ UNCHANGED <<dev, cache, mirror, ent, clean, conf, fetched>>

\* async_turn_on: one iteration of the loop (command, sleep, refresh, test).
TurnOnAttempt ==
    /\ pc = "turn_on"
    /\ \E oc \in CmdOutcomes, o \in RefreshOutcomes :
        LET after == AfterCommand(CMD_SET_HVAC_MODE, TurnOnMode(ent), oc, TRUE, o)
            on == TurnedOn(after.mirror[Entity])
            over == ~on /\ LoopExhausted(attempt)
            restore == ent.last_preset_mode # None \/ ent.last_target_temperature # <<>>
        IN  /\ dev' = after.dev
            /\ cache' = after.cache
            /\ mirror' = after.mirror
            /\ clean' = (clean /\ oc = "ok" /\ CleanUpdate(o))
            /\ pc' = IF on /\ restore THEN "turn_on_restore"
                     ELSE IF on \/ over THEN "idle" ELSE "turn_on"
            /\ attempt' = IF on \/ over THEN 0 ELSE attempt + 1
            /\ last' = Run("turn_on",
                           IF on /\ ~restore THEN "returned"
                           ELSE IF over THEN "raised" ELSE "running",
                           oc # "fail", last.sends + 1, last.refreshes + 1,
                           IF on /\ ~restore THEN 1 ELSE 0)
    /\ UNCHANGED <<ent, conf, fetched>>

\* async_turn_on: the radiator is on; the remembered preset or temperature is
\* set again (async_set_preset_mode or async_set_temperature), then the state
\* is written.
TurnOnRestore ==
    /\ pc = "turn_on_restore"
    /\ pc' = "idle"
    /\ UNCHANGED <<attempt, conf, fetched>>
    /\ IF ent.last_preset_mode # None
       THEN /\ ent' = [ent EXCEPT !.last_target_temperature = <<>>]
            /\ SetValue("turn_on", CMD_SET_PRESET, ent.last_preset_mode, last, 2)
       ELSE /\ ent' = [ent EXCEPT !.last_preset_mode = None]
            /\ SetValue("turn_on", CMD_SET_TEMP, ent.last_target_temperature[1], last, 2)

---------------------------------------------------------------------------
\* The entity's handlers run one at a time, between the coordinator's updates.
Next ==
    \/ Refresh
    \/ async_set_temperature
    \/ async_set_preset_mode
    \/ TurnOffCall
    \/ TurnOffAttempt
    \/ TurnOnCall
    \/ TurnOnAttempt
    \/ TurnOnRestore

Spec == Init /\ [][Next]_vars

\* The device manager alone: updates and commands on any cached device.
NextDM ==
    \/ Update
    \/ SendCommand

SpecDM == Init /\ [][NextDM]_vars

\* A command between updates, or the one command that runs to its end while an
\* update waits for its calls.
RaceCommand ==
    /\ fetched.active => last.op = "update_fetch"
    /\ SendCommand

\* Updates and commands interleaved.
NextRace ==
    \/ UpdateFetch
    \/ UpdateFinish
    \/ RaceCommand

SpecRace == Init /\ [][NextRace]_vars

\* Commands on a mirrored radiator, from any device data and configuration.
NextCmd == SendCommand

SpecCmd == InitCmd /\ [][NextCmd]_vars

---------------------------------------------------------------------------
\* Claims.

\* One iteration of async_turn_off's loop: a step taken inside the loop.
C1_Iteration ==
    /\ last'.op = "turn_off"
    /\ last'.sends = last.sends + 1
    /\ last'.refreshes = last.refreshes + 1
    /\ last'.sends <= 3
    /\ last'.refreshes = last'.sends
    \* mirrored power false after the refresh: return, nothing further is sent
    /\ ~mirror'[Entity].power =>
            pc' = "idle" /\ last'.result = "returned" /\ last'.writes = 1
    \* still on before the third attempt: the loop goes on, whatever the send returned
    /\ (mirror'[Entity].power /\ last'.sends < 3) =>
            pc' = "turn_off" /\ last'.result = "running" /\ attempt' = attempt + 1
    \* still on after the third attempt: HomeAssistantError
    /\ (mirror'[Entity].power /\ last'.sends = 3) =>
            pc' = "idle" /\ last'.result = "raised"
    /\ last'.result = "raised" <=> (mirror'[Entity].power /\ last'.sends = 3)

\* C1: async_turn_off is a bounded retry.  Every iteration sends the OFF command
\* once and refreshes once; at most 3 are made; the handler returns at the first
\* iteration after whose refresh the mirrored power is false and raises exactly
\* when the power is still true after the third; an iteration can always be taken
\* while the handler is in the loop, and each one ends the handler or advances
\* the attempt counter, so the handler terminates.
C1_BoundedRetry ==
    /\ [][pc = "turn_off" => C1_Iteration]_vars
    /\ [](pc = "turn_off" => /\ attempt \in 1..3
                             /\ last.sends = attempt - 1
                             /\ ENABLED TurnOffAttempt)

\* C1 witness: the third attempt was made after two that left the radiator on,
\* its send failed too, and the handler raised.
C1_Witness ==
    /\ last.op = "turn_off"
    /\ last.result = "raised"
    /\ last.sends = 3
    /\ ~last.ret
    /\ mirror[Entity].power

\* C2: whenever async_turn_off has returned without raising, the radiator itself
\* is off.
C2_ReturnedMeansOff ==
    (last.op = "turn_off" /\ last.result = "returned") => ~dev[Entity].power

\* C3: when every vendor API call so far succeeded (and every command was
\* applied by the radiator), async_turn_on ends by returning, with the radiator on.
C3_TurnOnTurnsOn ==
    (last.op = "turn_on" /\ last.result # "running" /\ clean) =>
        (last.result = "returned" /\ dev[Entity].power)

\* The step is an update whose installation-device-list fetch succeeded.
ListedUpdate == last'.op = "update" /\ last'.listOk

\* C4: after an update whose device-list fetch succeeded, the returned devices
\* are exactly the listed ids that were not cached before, whose base data was
\* fetched with non-empty data and whose type is supported; each is cached
\* afterwards; an id cached before stays cached, is not returned, and takes
\* the fetched data in place.
C4_ReturnsNewDevices ==
    [][ListedUpdate =>
        /\ \A d \in Devices :
            d \in last'.discovered <=>
                /\ d \in last'.listed
                /\ d \notin cache
                /\ last'.fetch[d] = "ok"
                /\ DeviceType(d) \in {"radiator", "towel", "therm"}
        /\ last'.discovered \subseteq cache'
        /\ cache' \ cache = last'.discovered
        /\ \A d \in cache :
            /\ d \in cache'
            /\ d \notin last'.discovered
            /\ (d \in last'.listed /\ last'.fetch[d] = "ok") =>
                    StateOf(mirror'[d]) = dev[d]
       ]_vars

\* C4 witness: an update returned r1 as new, updated the cached r2 in place and
\* ignored the listed device of an unsupported type.
C4_Witness ==
    /\ last.op = "update"
    /\ last.discovered = {"r1"}
    /\ last.listed = Devices
    /\ last.fetch["r2"] = "ok"
    /\ last.fetch["x1"] = "ok"
    /\ "r2" \in cache
    /\ "x1" \notin cache

\* C5: when the device-list fetch fails, update marks every cached device
\* unavailable, returns nothing, calls no other API, and leaves the cache keys
\* and every mirrored temp, mode, power and preset as they were.
C5_ListFailure ==
    [][(last'.op = "update" /\ ~last'.listOk) =>
        /\ \A d \in cache : ~mirror'[d].hass_available
        /\ last'.discovered = {}
        /\ last'.calls = {<<"get_installation_devices", "-">>}
        /\ cache' = cache
        /\ \A d \in Radiators : StateOf(mirror'[d]) = StateOf(mirror[d])
        /\ \A d \in Radiators \ cache : mirror'[d] = mirror[d]
       ]_vars

\* C5 witness: the device-list fetch failed with both radiators cached, the
\* mirror of r1 being on.
C5_Witness ==
    /\ last.op = "update"
    /\ ~last.listOk
    /\ cache = Radiators
    /\ mirror["r1"].power
    /\ ~mirror["r1"].hass_available
    /\ ~mirror["r2"].hass_available

\* C6: when the base-data fetch of a listed device fails, the device is marked
\* unavailable with its mirrored fields unchanged if it is cached and is not
\* added if it is not; every other listed radiator whose fetch succeeded is
\* cached afterwards, available, with the fetched data.
C6_FetchFailureIsLocal ==
    [][ListedUpdate =>
        \A d \in Radiators :
            (d \in last'.listed /\ last'.fetch[d] = "fail") =>
                /\ d \in cache => /\ d \in cache'
                                  /\ ~mirror'[d].hass_available
                                  /\ StateOf(mirror'[d]) = StateOf(mirror[d])
                /\ d \notin cache => d \notin cache' /\ mirror'[d] = mirror[d]
                /\ \A e \in Radiators \ {d} :
                    (e \in last'.listed /\ last'.fetch[e] = "ok") =>
                        /\ e \in cache'
                        /\ mirror'[e].hass_available
                        /\ StateOf(mirror'[e]) = dev[e]
       ]_vars

\* C6 witness: in one update the fetch of the cached r1 failed and r2 was added.
C6_Witness ==
    /\ last.op = "update"
    /\ last.listOk
    /\ last.fetch["r1"] = "fail"
    /\ "r1" \in cache
    /\ ~mirror["r1"].hass_available
    /\ last.fetch["r2"] = "ok"
    /\ "r2" \in last.discovered

\* C7: a cached device's hass_available goes from false to true only in an
\* update that fetched its base data successfully with non-empty data, every
\* such update leaves it true, and an entity reports available only while its
\* radiator's hass_available is true.
C7_AvailabilityRecovers ==
    /\ [][\A d \in cache :
            /\ (~mirror[d].hass_available /\ mirror'[d].hass_available) =>
                    /\ ListedUpdate
                    /\ d \in last'.listed
                    /\ last'.fetch[d] = "ok"
            /\ (ListedUpdate /\ d \in last'.listed /\ last'.fetch[d] = "ok") =>
                    mirror'[d].hass_available
         ]_vars
    /\ [](\A d \in Radiators, sup \in BOOLEAN :
            available(d, sup) => (d \in cache /\ mirror[d].hass_available))

\* C7 witness: an update restored the availability of r1.
C7_Witness ==
    /\ last.op = "update"
    /\ "r1" \in last.restored
    /\ mirror["r1"].hass_available
    /\ available("r1", TRUE)

\* C8: when the vendor API reports failure for a set-temperature, set-preset or
\* set-HVAC-mode command, send_command returns false, the device is marked
\* unavailable and its mirrored temp, mode, power and preset are unchanged.
C8_FailedCommand ==
    [][(last'.op = "send_command" /\ last'.api = "fail") =>
        /\ last'.command \in {"cmd_set_temp", "cmd_set_preset", "cmd_set_hvac_mode"}
        /\ ~last'.ret
        /\ ~mirror'[last'.dev].hass_available
        /\ StateOf(mirror'[last'.dev]) = StateOf(mirror[last'.dev])
        /\ dev' = dev
       ]_vars

\* C8 witness: a set-preset command for comfort failed on a radiator whose
\* mirror is off.
C8_Witness ==
    /\ last.op = "send_command"
    /\ last.command = "cmd_set_preset"
    /\ last.arg = "comfort"
    /\ last.api = "fail"
    /\ ~mirror[last.dev].power
    /\ mirror[last.dev].preset = "off"

\* C9: async_set_temperature and async_set_preset_mode raise exactly when
\* send_command returned false, and then request no refresh (the cache and the
\* other radiators' mirrors are as before) and write no state; otherwise they
\* request one refresh and write the state once.
C9_SetRaisesOnFailure ==
    [][(last'.op \in {"set_temperature", "set_preset_mode"}) =>
        /\ last'.result \in {"raised", "returned"}
        /\ last'.result = "raised" <=> ~last'.ret
        /\ last'.sends = 1
        /\ last'.result = "raised" =>
                /\ last'.refreshes = 0
                /\ last'.writes = 0
                /\ cache' = cache
                /\ \A d \in Radiators \ {Entity} : mirror'[d] = mirror[d]
        /\ last'.result = "returned" =>
                /\ last'.refreshes = 1
                /\ last'.writes = 1
       ]_vars

\* C9 witness: async_set_preset_mode raised after a failed command.
C9_Witness ==
    /\ last.op = "set_preset_mode"
    /\ last.result = "raised"
    /\ ~last.ret
    /\ ~mirror[Entity].hass_available

\* C10: send_command calls the vendor API for the three supported commands
\* only; for any other command it returns false, calls no API and changes
\* neither the mirrored fields nor the availability of the device.
C10_UnsupportedCommand ==
    [][(last'.op = "send_command") =>
        IF last'.command \in {"cmd_set_temp", "cmd_set_preset", "cmd_set_hvac_mode"}
        THEN Cardinality(last'.calls) = 1
        ELSE /\ ~last'.ret
             /\ last'.calls = {}
             /\ mirror' = mirror
             /\ dev' = dev
       ]_vars

\* C10 witness: the command "cmd_turn_off", which send_command does not
\* dispatch, was sent to an available radiator that is on.
C10_Witness ==
    /\ last.op = "send_command"
    /\ last.command = "cmd_turn_off"
    /\ ~last.ret
    /\ mirror[last.dev].hass_available
    /\ mirror[last.dev].power

\* C11: in every reachable state the entity's hvac_mode is OFF exactly when the
\* mirrored power is false, AUTO exactly when the power is true and the mirrored
\* mode is auto, and HEAT otherwise; hvac_action is OFF exactly when hvac_mode is
\* OFF and HEATING otherwise.
C11_DerivedHvacState ==
    \A d \in cache :
        LET m == mirror[d]
        IN  /\ hvac_mode(m) \in {"off", "auto", "heat"}
            /\ (hvac_mode(m) = "off") <=> ~m.power
            /\ (hvac_mode(m) = "auto") <=> (m.power /\ m.mode = "auto")
            /\ (hvac_mode(m) = "heat") <=> (m.power /\ m.mode # "auto")
            /\ hvac_action(m) \in {"off", "heating"}
            /\ (hvac_action(m) = "off") <=> (hvac_mode(m) = "off")

\* C11 witness: after a command the radiator is mirrored as on in auto mode and
\* the entity reports AUTO and HEATING.
C11_Witness ==
    /\ last.op = "send_command"
    /\ mirror[Entity].power
    /\ mirror[Entity].mode = "auto"
    /\ hvac_mode(mirror[Entity]) = "auto"
    /\ hvac_action(mirror[Entity]) = "heating"

\* C12: target_temperature is the configured eco, comfort or ice temperature
\* when the mirrored mode is manual and the mirrored preset is eco, comfort or
\* ice, and the mirrored temp in every other case; preset_mode is eco, comfort
\* or Anti-frost for those three presets and None for any other preset.
C12_DerivedTargetAndPreset ==
    \A d \in cache :
        LET m == mirror[d]
            manual == m.mode = "manual"
        IN  /\ (manual /\ m.preset = "eco") => target_temperature(m) = conf.eco_temp
            /\ (manual /\ m.preset = "comfort") =>
                    target_temperature(m) = conf.comfort_temp
            /\ (manual /\ m.preset = "ice") => target_temperature(m) = conf.ice_temp
            /\ (~manual \/ m.preset \notin {"eco", "comfort", "ice"}) =>
                    target_temperature(m) = m.temp
            /\ m.preset = "eco" => preset_mode(m) = "eco"
            /\ m.preset = "comfort" => preset_mode(m) = "comfort"
            /\ m.preset = "ice" => preset_mode(m) = "Anti-frost"
            /\ m.preset \notin {"eco", "comfort", "ice"} => preset_mode(m) = None

\* C12 witness: after a command the radiator is mirrored in auto mode with the
\* eco preset and a temp that is not the eco temperature: the entity reports
\* the mirrored temp.
C12_Witness ==
    /\ last.op = "send_command"
    /\ mirror[Entity].mode = "auto"
    /\ mirror[Entity].preset = "eco"
    /\ mirror[Entity].temp # conf.eco_temp
    /\ target_temperature(mirror[Entity]) = mirror[Entity].temp
    /\ preset_mode(mirror[Entity]) = "eco"

\* The last operation was a set-temperature command the vendor API accepted.
SetTempSucceeded ==
    /\ last.op = "send_command"
    /\ last.command = "cmd_set_temp"
    /\ last.ret

\* C13: a successful set-temperature command sets the mirror to temp = the new
\* value, mode = manual, power = true and preset = comfort if the value is the
\* comfort temperature, else eco if it is the eco temperature, else ice if it is
\* the ice temperature, else none.
C13_SetTempMirror ==
    SetTempSucceeded =>
        LET m == mirror[last.dev]
            T == last.arg
        IN  /\ m.temp = T
            /\ m.mode = "manual"
            /\ m.power
            /\ m.preset = IF T = conf.comfort_temp THEN "comfort"
                          ELSE IF T = conf.eco_temp THEN "eco"
                          ELSE IF T = conf.ice_temp THEN "ice"
                          ELSE "none"

\* C13 witness: the comfort and eco temperatures coincide and the temperature
\* set is that one: the preset is comfort.
C13_Witness ==
    /\ SetTempSucceeded
    /\ conf.comfort_temp = conf.eco_temp
    /\ last.arg = conf.eco_temp
    /\ mirror[last.dev].preset = "comfort"

\* C14: immediately after a successful set-temperature command with value T the
\* entity reports target_temperature = T and hvac_mode = HEAT, whatever T and
\* the state before.
C14_SetTempRoundTrip ==
    SetTempSucceeded =>
        /\ target_temperature(mirror[last.dev]) = last.arg
        /\ hvac_mode(mirror[last.dev]) = "heat"

\* C14 witness: the temperature set is the eco temperature, which is also the
\* ice temperature and not the comfort one; the entity reports it.
C14_Witness ==
    /\ SetTempSucceeded
    /\ last.arg = conf.eco_temp
    /\ conf.eco_temp = conf.ice_temp
    /\ conf.eco_temp # conf.comfort_temp
    /\ mirror[last.dev].preset = "eco"
    /\ target_temperature(mirror[last.dev]) = last.arg

\* C15: immediately after a successful set-HVAC-mode command with one of the
\* entity's hvac_modes (OFF, HEAT, AUTO) the entity's hvac_mode is that mode.
C15_ModeReflected ==
    (/\ last.op = "send_command"
     /\ last.command = "cmd_set_hvac_mode"
     /\ last.arg \in {"off", "heat", "auto"}
     /\ last.ret) =>
        hvac_mode(mirror[last.dev]) = last.arg

\* C16: when a command on a device succeeded while an update was in flight
\* (the update fetched the device data before the command), the mirror still
\* shows the command's effect once the update has finished.
C16_CommandNotUndone ==
    (last.op = "update_finish" /\ last.overlapped) => last.kept

\* C17: the device cache never evicts.  Across updates and commands the set of
\* cached ids only grows, and an update leaves a cached device that is not in
\* the device list it fetched as it was: still cached, its mirrored fields and
\* its availability unchanged.
C17_NeverEvicts ==
    [][/\ cache \subseteq cache'
       /\ ListedUpdate =>
            \A d \in cache \ last'.listed :
                /\ d \in cache'
                /\ mirror'[d] = mirror[d]
      ]_vars

\* C17 witness: an update whose device list no longer holds the cached r1 left
\* it cached and available, and added r2.
C17_Witness ==
    /\ last.op = "update"
    /\ last.listOk
    /\ "r1" \in cache
    /\ "r1" \notin last.listed
    /\ "r1" \notin last.discovered
    /\ mirror["r1"].hass_available
    /\ "r2" \in last.discovered

=============================================================================
